---- MODULE Spec2Model ----
(***************************************************************************)
(* A model of the debuginfod client library.                               *)
(*                                                                         *)
(*   Spec       one Client::fetch_debug_info call (src/src/client.rs):     *)
(*              the loop over the configured base URLs, with the transport *)
(*              an arbitrary assignment of outcomes to the servers.        *)
(*   SpecCache  concurrent CachingClient::fetch_debug_info calls           *)
(*              (src/src/caching_client.rs) over one shared cache          *)
(*              directory, with I/O failures and crashes at every step.    *)
(*   SpecBuilt  ClientBuilder::build on a list of strings and, when it      *)
(*              gives a client, one fetch_debug_info call on that client.  *)
(*   SpecPaths  the layout of the cache: debuginfo_path applied to all      *)
(*              build ids of up to MaxIdLen bytes, and the calls of        *)
(*              SpecCache that use it.                                     *)
(*   SpecPure   the functions without state, each applied to one input:    *)
(*              split_env_var_contents, ClientBuilder::build and           *)
(*              build_from_env, format_build_id, BlockingClient::get.      *)
(*                                                                         *)
(* Strings are TLA+ strings, paths and URL paths are sequences of          *)
(* segments, byte streams are sequences of numbers in 0..255.  The strings *)
(* that are split and trimmed are sequences of characters, a URL among     *)
(* them standing as one element.                                           *)
(***************************************************************************)
EXTENDS Naturals, Sequences, FiniteSets, TLC

\* ------------------------------------------------------------------ bounds

\* Longest list of base URLs a Client is built with.
MaxServers == 3

\* Number of CachingClient::fetch_debug_info calls made on one cache
\* directory, concurrently or one after the other, by any threads.
NumCalls == 2

\* Longest value of DEBUGINFOD_URLS, in characters and whole URLs.
MaxEnvLen == 4

\* Longest raw build id, in bytes.
MaxIdLen == 3

\* ------------------------------------------------------------- build ids

\* BuildId::raw / BuildId::RawBytes
RawBytes(bytes) == [kind |-> "raw", bytes |-> bytes, string |-> ""]

\* BuildId::formatted / BuildId::Formatted
Formatted(string) == [kind |-> "formatted", bytes |-> <<>>, string |-> string]

\* One hex digit of `{b:02x}`.
HexDigit(n) ==
  CASE n = 0 -> "0" [] n = 1 -> "1" [] n = 2 -> "2" [] n = 3 -> "3"
    [] n = 4 -> "4" [] n = 5 -> "5" [] n = 6 -> "6" [] n = 7 -> "7"
    [] n = 8 -> "8" [] n = 9 -> "9" [] n = 10 -> "a" [] n = 11 -> "b"
    [] n = 12 -> "c" [] n = 13 -> "d" [] n = 14 -> "e" [] n = 15 -> "f"

\* format!("{b:x}"): no padding.
FormatByteUnpadded(b) ==
  IF b < 16 THEN HexDigit(b) ELSE HexDigit(b \div 16) \o HexDigit(b % 16)

\* format!("{b:02x}"): two lowercase digits, zero padded.
FormatByte(b) == HexDigit(b \div 16) \o HexDigit(b % 16)

RECURSIVE format_build_id(_)
\* The fold of util::format_build_id: the bytes' renderings in byte order.
format_build_id(build_id) ==
  IF build_id = <<>> THEN ""
  ELSE format_build_id(SubSeq(build_id, 1, Len(build_id) - 1))
         \o FormatByte(build_id[Len(build_id)])

\* Every id rendered from its bytes, a formatted one too.
FormatFromBytes(id) == format_build_id(id.bytes)

\* BuildId::format: raw bytes are rendered, a formatted id is taken verbatim.
Format(id) ==
  IF id.kind = "raw" THEN format_build_id(id.bytes) ELSE id.string

\* The build ids a call is made with.
BuildIds ==
  { RawBytes(<<0>>), RawBytes(<<174, 185>>), Formatted("aeb9"), Formatted("AEB9") }

\* -------------------------------------------------------------------- URLs

\* A parsed Url: its origin and the segments of its path.
BaseUrls ==
  { [origin |-> "https://a.example", path |-> <<>>],
    [origin |-> "https://b.example", path |-> <<"mirror">>] }

\* Url::set_path: the path is replaced, the origin kept.
set_path(url, path) == [origin |-> url.origin, path |-> path]

\* The path of format!("buildid/{build_id}/debuginfo").
EndpointPath(build_id) == <<"buildid", build_id, "debuginfo">>

\* The URL handed to the transport for one base URL (client.rs 83-84).
RequestUrl(base_url, build_id) == set_path(base_url, EndpointPath(build_id))

\* All non-empty lists of at most n base URLs.
ServerLists(n) == UNION { [1..k -> BaseUrls] : k \in 1..n }

\* --------------------------------------------------------------- transport

NOT_FOUND == 404

\* The byte streams a server may serve.
Payloads == { <<7>>, <<1, 2>> }

\* Result<Box<dyn Read>, HttpClientError> of HttpClient::get.
OkStream(data) == [kind |-> "ok", status |-> 200, data |-> data]
StatusCode(s) == [kind |-> "status", status |-> s, data |-> <<>>]
InvalidUrl == [kind |-> "invalid_url", status |-> 0, data |-> <<>>]
Other == [kind |-> "other", status |-> 0, data |-> <<>>]

Outcomes ==
  { OkStream(d) : d \in Payloads }
    \cup { StatusCode(s) : s \in {NOT_FOUND, 418, 500} }
    \cup { InvalidUrl, Other }

\* ---------------------------------------------- Client::fetch_debug_info

\* Option::None of issue_err / server_err.
NoErr == [kind |-> "none", status |-> 0, url |-> <<>>, cause |-> ""]

\* status_to_error(s): "request failed with HTTP status {status}".
status_to_error(s) == [kind |-> "server", status |-> s, url |-> <<>>, cause |-> ""]

\* The transport's error with the context "failed to issue request to `{url}`".
IssueError(url, cause) == [kind |-> "issue", status |-> 0, url |-> url, cause |-> cause]

\* or_else with its value discarded: nothing is ever recorded.
or_elseDiscarded(old, new) == old

\* Every error recorded over the one before: the last one is kept.
or_elseLast(old, new) == new

\* Option::or_else(|| Some(new)): the first recorded error is kept.
or_else(old, new) == IF old.kind = "none" THEN new ELSE old

\* The precedence the other way round: issue_err.or(server_err).
IssueErrOrServerErr(server_err, issue_err) ==
  IF issue_err.kind # "none" THEN issue_err ELSE server_err

\* The issue error forgotten after the loop: only server_err is looked at.
ServerErrOnly(server_err, issue_err) == server_err

\* Option::or of line 114: the server error goes before the issue error.
ServerErrOrIssueErr(server_err, issue_err) ==
  IF server_err.kind # "none" THEN server_err ELSE issue_err

\* Response::new(data, base_url.as_str())
Response(data, server_url) == [data |-> data, server_url |-> server_url]

\* Result<Option<Response>>
NoResult == [tag |-> "pending"]
OkSome(response) == [tag |-> "some", response |-> response]
OkNone == [tag |-> "none"]
Err(err, build_id) == [tag |-> "err", err |-> err, build_id |-> build_id]

\* The locals of one call before the loop (client.rs 77-79).
EnterLoop(id) ==
  [ build_id |-> Format(id), issue_err |-> NoErr, server_err |-> NoErr,
    idx |-> 1, requests |-> <<>>, result |-> NoResult ]

\* One iteration of the loop (client.rs 82-111) at position loc.idx: the
\* request is made and the match arm of its outcome is taken.
Iterate(urls, get, loc) ==
  LET base_url == urls[loc.idx]
      url == RequestUrl(base_url, loc.build_id)
      out == get[loc.idx]
      asked == [loc EXCEPT !.requests = Append(@, [idx |-> loc.idx, url |-> url])]
  IN  CASE out.kind = "ok" ->
             [asked EXCEPT !.result = OkSome(Response(out.data, base_url))]
        [] out.kind = "status" /\ out.status = NOT_FOUND ->
             [asked EXCEPT !.idx = @ + 1]
        [] out.kind = "status" /\ out.status # NOT_FOUND ->
             [asked EXCEPT !.idx = @ + 1,
                           !.server_err = or_else(@, status_to_error(out.status))]
        [] OTHER ->
             [asked EXCEPT !.idx = @ + 1,
                           !.issue_err = or_else(@, IssueError(url, out.kind))]

\* After the loop (client.rs 114-118).
Exhausted(loc) ==
  LET err == ServerErrOrIssueErr(loc.server_err, loc.issue_err)
  IN  [loc EXCEPT !.result =
         IF err.kind # "none" THEN Err(err, loc.build_id) ELSE OkNone]

VARIABLES
  base_urls,    \* Client::base_urls
  client,       \* Client::client: the outcome of a GET to each server
  id,           \* the build_id argument
  pc,           \* position of the call
  build_id,     \* local build_id: the formatted id
  idx,          \* position of the for loop in base_urls
  issue_err,    \* local issue_err
  server_err,   \* local server_err
  requests,     \* the GET requests made so far, in order
  result,       \* the value returned
  files,        \* the regular files under cache_dir: path -> content
  dirs,         \* the directories under cache_dir
  cpc,          \* position of each CachingClient::fetch_debug_info call
  cid,          \* each call's build_id argument
  gets,         \* transport calls made by each call
  debug_info,   \* each call's response stream: the bytes not yet read
  cresult,      \* the value each call returned
  persisted,    \* per build id, the moves into its target path that succeeded
  failed,       \* the calls in which a file operation after the fetch failed
  fn_arg,       \* the function applied on its own, with its argument
  fn_ret        \* what that function returned

clientVars ==
  << base_urls, client, id, pc, build_id, idx, issue_err, server_err,
     requests, result >>

cacheVars ==
  << files, dirs, cpc, cid, gets, debug_info, cresult, persisted, failed >>

pureVars == << fn_arg, fn_ret >>

vars == << clientVars, cacheVars, pureVars >>

frame == << base_urls, client, id, cacheVars, pureVars >>

Calls == 1..NumCalls

\* The build ids CachingClient::fetch_debug_info is called with.
CacheBuildIds == { <<0>>, <<174, 185>> }

\* Path::join of a relative component: an empty component adds none.
join(path, component) ==
  IF component = "" THEN path ELSE Append(path, component)

RECURSIVE format_build_idUnpadded(_)
\* The bytes rendered without padding.
format_build_idUnpadded(bytes) ==
  IF bytes = <<>> THEN ""
  ELSE format_build_idUnpadded(SubSeq(bytes, 1, Len(bytes) - 1))
         \o FormatByteUnpadded(bytes[Len(bytes)])

\* The entry directory named by the unpadded rendering.
debuginfo_pathUnpadded(bytes) ==
  join(join(<<>>, format_build_idUnpadded(bytes)), "debuginfo")

\* CachingClient::debuginfo_path, relative to cache_dir.
debuginfo_path(bytes) == join(join(<<>>, format_build_id(bytes)), "debuginfo")

\* Path::parent
parent(path) == SubSeq(path, 1, Len(path) - 1)

\* No call has started and the cache directory, created by
\* CachingClient::new, is empty.
CacheIdle ==
  /\ files = << >>
  /\ dirs = {}
  /\ cpc = [c \in Calls |-> "idle"]
  /\ cid = [c \in Calls |-> <<>>]
  /\ gets = [c \in Calls |-> 0]
  /\ debug_info = [c \in Calls |-> <<>>]
  /\ cresult = [c \in Calls |-> NoResult]
  /\ persisted = [b \in CacheBuildIds |-> 0]
  /\ failed = {}

\* No function is applied on its own.
PureIdle ==
  /\ fn_arg = [fn |-> "none"]
  /\ fn_ret = [tag |-> "pending"]

\* The locals as one record.
Locals ==
  [ build_id |-> build_id, issue_err |-> issue_err, server_err |-> server_err,
    idx |-> idx, requests |-> requests, result |-> result ]

\* The locals take the values of loc.
Store(loc) ==
  /\ build_id' = loc.build_id
  /\ issue_err' = loc.issue_err
  /\ server_err' = loc.server_err
  /\ idx' = loc.idx
  /\ requests' = loc.requests
  /\ result' = loc.result

\* A client built from a non-empty list, a transport and a build id.
Init ==
  /\ base_urls \in ServerLists(MaxServers)
  /\ client \in [DOMAIN base_urls -> Outcomes]
  /\ id \in BuildIds
  /\ pc = "start"
  /\ build_id = ""
  /\ idx = 0
  /\ issue_err = NoErr
  /\ server_err = NoErr
  /\ requests = <<>>
  /\ result = NoResult
  /\ CacheIdle
  /\ PureIdle

\* client.rs 77-79
FetchStart ==
  /\ pc = "start"
  /\ Store(EnterLoop(id))
  /\ pc' = "loop"
  /\ UNCHANGED frame

\* The loop body is entered for the server at idx.
InLoop == pc = "loop" /\ idx <= Len(base_urls)

\* The Ok arm without its return: the response is noted and the loop goes on.
GetOkNoReturn ==
  /\ InLoop
  /\ client[idx].kind = "ok"
  /\ Store([Iterate(base_urls, client, Locals) EXCEPT !.idx = @ + 1])
  /\ UNCHANGED << pc, frame >>

\* client.rs 87-89: the transport succeeds and the call returns.
GetOk ==
  /\ InLoop
  /\ client[idx].kind = "ok"
  /\ Store(Iterate(base_urls, client, Locals))
  /\ pc' = "done"
  /\ UNCHANGED frame

\* The 404 arm returning Ok(None) at once instead of continuing.
GetNotFoundReturn ==
  /\ InLoop
  /\ client[idx].kind = "status" /\ client[idx].status = NOT_FOUND
  /\ Store([Iterate(base_urls, client, Locals) EXCEPT !.result = OkNone])
  /\ pc' = "done"
  /\ UNCHANGED frame

\* client.rs 90
GetNotFound ==
  /\ InLoop
  /\ client[idx].kind = "status" /\ client[idx].status = NOT_FOUND
  /\ Store(Iterate(base_urls, client, Locals))
  /\ UNCHANGED << pc, frame >>

\* client.rs 91-100
GetStatusCode ==
  /\ InLoop
  /\ client[idx].kind = "status" /\ client[idx].status # NOT_FOUND
  /\ Store(Iterate(base_urls, client, Locals))
  /\ UNCHANGED << pc, frame >>

\* A request that could not be issued made once more before moving on.
GetErrRetry ==
  /\ InLoop
  /\ client[idx].kind \in {"invalid_url", "other"}
  /\ Store([Iterate(base_urls, client, Locals) EXCEPT
              !.idx = IF Len(requests) < idx THEN idx ELSE idx + 1])
  /\ UNCHANGED << pc, frame >>

\* client.rs 101-110
GetErr ==
  /\ InLoop
  /\ client[idx].kind \in {"invalid_url", "other"}
  /\ Store(Iterate(base_urls, client, Locals))
  /\ UNCHANGED << pc, frame >>

\* client.rs 114-118
FetchEnd ==
  /\ pc = "loop"
  /\ idx > Len(base_urls)
  /\ Store(Exhausted(Locals))
  /\ pc' = "done"
  /\ UNCHANGED frame

Next ==
  \/ FetchStart
  \/ GetOk
  \/ GetNotFound
  \/ GetStatusCode
  \/ GetErr
  \/ FetchEnd

Spec == Init /\ [][Next]_vars

\* The calls for one build id: the loop does not look at it.
InitFair == Init /\ id = RawBytes(<<174, 185>>)

\* The call is made by a thread that keeps running, and every
\* HttpClient::get it makes returns.
SpecFair == InitFair /\ [][Next]_vars /\ WF_vars(Next)

\* ---------------------------------------- CachingClient::fetch_debug_info

RECURSIVE fetch_debug_info(_, _, _)
\* Client::fetch_debug_info run to its return: the loop from loc on.
fetch_debug_info(urls, get, loc) ==
  IF loc.result # NoResult THEN loc
  ELSE IF loc.idx > Len(urls) THEN Exhausted(loc)
  ELSE fetch_debug_info(urls, get, Iterate(urls, get, loc))

\* The base URLs of the client a CachingClient wraps: one server, as in the
\* tests of caching_client.rs.
CacheBaseUrls == << [origin |-> "https://a.example", path |-> <<>>] >>

\* Ok(Some(path))
OkSomePath(path) == [tag |-> "some", path |-> path]

\* An I/O error with the context the code attaches to it.
IoErr(context, cause) ==
  [tag |-> "err", err |-> [kind |-> "io", context |-> context, cause |-> cause]]

\* A file of fs removed.
Remove(fs, path) == [p \in DOMAIN fs \ {path} |-> fs[p]]

\* The existence check skipped: every call is taken for a miss.
try_existsNever(fs, path) == FALSE

\* Path::try_exists answering Ok(exists).
try_exists(fs, path) == path \in DOMAIN fs

\* A temporary file made at the destination itself.
TempPathAtTarget(c) == debuginfo_path(cid[c])

\* The name NamedTempFile::new_in(&self.cache_dir) picks: a fresh direct
\* child of cache_dir.
TempPath(c) == << ".tmp" \o HexDigit(c) >>

\* A move that replaces an existing destination (NamedTempFile::persist).
persist_clobber(fs, tmp, path) ==
  [ok |-> TRUE, fs |-> (path :> fs[tmp]) @@ Remove(fs, tmp)]

\* NamedTempFile::persist_noclobber: the temporary file atomically takes the
\* name path unless a file of that name exists; then the move fails.
persist_noclobber(fs, tmp, path) ==
  IF path \in DOMAIN fs
  THEN [ok |-> FALSE, fs |-> fs]
  ELSE [ok |-> TRUE, fs |-> (path :> fs[tmp]) @@ Remove(fs, tmp)]

\* A CachingClient over an empty cache directory, no call started.
InitCache ==
  /\ base_urls = CacheBaseUrls
  /\ client = << >>
  /\ id = RawBytes(<<>>)
  /\ pc = "start"
  /\ build_id = ""
  /\ idx = 0
  /\ issue_err = NoErr
  /\ server_err = NoErr
  /\ requests = <<>>
  /\ result = NoResult
  /\ CacheIdle
  /\ PureIdle

\* Call c returns r and its temporary file is kept on disk.
ReturnKeeping(c, r) ==
  /\ cresult' = [cresult EXCEPT ![c] = r]
  /\ cpc' = [cpc EXCEPT ![c] = "done"]
  /\ debug_info' = [debug_info EXCEPT ![c] = <<>>]
  /\ files' = files
  /\ failed' = failed \cup {c}

\* Call c returns r; its NamedTempFile, if it still has one, is dropped and
\* with it the file removed.
ReturnDropping(c, r) ==
  /\ cresult' = [cresult EXCEPT ![c] = r]
  /\ cpc' = [cpc EXCEPT ![c] = "done"]
  /\ debug_info' = [debug_info EXCEPT ![c] = <<>>]
  /\ files' = Remove(files, TempPath(c))
  /\ failed' = failed \cup {c}

\* Call c starts: CachingClient::fetch_debug_info(b) is entered.
Call(c, b) ==
  /\ cpc[c] = "idle"
  /\ cpc' = [cpc EXCEPT ![c] = "probe"]
  /\ cid' = [cid EXCEPT ![c] = b]
  /\ UNCHANGED << files, dirs, gets, debug_info, cresult, persisted, failed,
                  clientVars, pureVars >>

\* caching_client.rs 84-88, the path exists: cache hit.
ProbeHit(c) ==
  /\ cpc[c] = "probe"
  /\ try_exists(files, debuginfo_path(cid[c]))
  /\ cresult' = [cresult EXCEPT ![c] = OkSomePath(debuginfo_path(cid[c]))]
  /\ cpc' = [cpc EXCEPT ![c] = "done"]
  /\ UNCHANGED << files, dirs, cid, gets, debug_info, persisted, failed,
                  clientVars, pureVars >>

\* The entry directory created ahead of the fetch.
ProbeMissMkDir(c) ==
  /\ cpc[c] = "probe"
  /\ ~try_exists(files, debuginfo_path(cid[c]))
  /\ cpc' = [cpc EXCEPT ![c] = "fetch"]
  /\ dirs' = dirs \cup { parent(debuginfo_path(cid[c])) }
  /\ UNCHANGED << files, cid, gets, debug_info, cresult, persisted, failed,
                  clientVars, pureVars >>

\* A miss answered from memory: not found again, without a request, when a
\* call for the same id has returned Ok(None) before.
ProbeMissRemembering(c) ==
  /\ cpc[c] = "probe"
  /\ ~try_exists(files, debuginfo_path(cid[c]))
  /\ IF \E e \in Calls \ {c} :
          cpc[e] = "done" /\ cid[e] = cid[c] /\ cresult[e] = OkNone
     THEN /\ cresult' = [cresult EXCEPT ![c] = OkNone]
          /\ cpc' = [cpc EXCEPT ![c] = "done"]
     ELSE /\ cpc' = [cpc EXCEPT ![c] = "fetch"]
          /\ UNCHANGED cresult
  /\ UNCHANGED << files, dirs, cid, gets, debug_info, persisted, failed,
                  clientVars, pureVars >>

\* caching_client.rs 84-88, the path does not exist: on to the client.
ProbeMiss(c) ==
  /\ cpc[c] = "probe"
  /\ ~try_exists(files, debuginfo_path(cid[c]))
  /\ cpc' = [cpc EXCEPT ![c] = "fetch"]
  /\ UNCHANGED << files, dirs, cid, gets, debug_info, cresult, persisted, failed,
                  clientVars, pureVars >>

\* caching_client.rs 85: try_exists()? cannot tell and the call fails.
ProbeErr(c) ==
  /\ cpc[c] = "probe"
  /\ cresult' = [cresult EXCEPT ![c] = IoErr("try_exists", "io_error")]
  /\ cpc' = [cpc EXCEPT ![c] = "done"]
  /\ UNCHANGED << files, dirs, cid, gets, debug_info, persisted, failed,
                  clientVars, pureVars >>

\* What self.client.fetch_debug_info(build_id) can return for each build
\* id, with the number of requests it made, over every behaviour of the
\* transport.
ClientReturns ==
  [ b \in CacheBuildIds |->
      { LET loc == fetch_debug_info(CacheBaseUrls, get, EnterLoop(RawBytes(b)))
        IN  [result |-> loc.result, gets |-> Len(loc.requests)]
        : get \in [DOMAIN CacheBaseUrls -> Outcomes] } ]

\* caching_client.rs 90-94: the wrapped client's whole call, against any
\* behaviour of the transport.
Fetch(c) ==
  /\ cpc[c] = "fetch"
  /\ \E ret \in ClientReturns[cid[c]] :
       /\ gets' = [gets EXCEPT ![c] = ret.gets]
       /\ IF ret.result.tag = "some"
          THEN /\ debug_info' = [debug_info EXCEPT ![c] = ret.result.response.data]
               /\ cpc' = [cpc EXCEPT ![c] = "mktemp"]
               /\ UNCHANGED cresult
          ELSE /\ cresult' = [cresult EXCEPT ![c] = ret.result]
               /\ cpc' = [cpc EXCEPT ![c] = "done"]
               /\ UNCHANGED debug_info
  /\ UNCHANGED << files, dirs, cid, persisted, failed, clientVars, pureVars >>

\* caching_client.rs 99-100
MkTemp(c) ==
  /\ cpc[c] = "mktemp"
  /\ \/ /\ files' = (TempPath(c) :> <<>>) @@ files
        /\ cpc' = [cpc EXCEPT ![c] = "copy"]
        /\ UNCHANGED << cresult, debug_info, failed >>
     \/ /\ cresult' = [cresult EXCEPT ![c] =
                         IoErr("failed to create temporary file", "io_error")]
        /\ cpc' = [cpc EXCEPT ![c] = "done"]
        /\ debug_info' = [debug_info EXCEPT ![c] = <<>>]
        /\ failed' = failed \cup {c}
        /\ UNCHANGED files
  /\ UNCHANGED << dirs, cid, gets, persisted, clientVars, pureVars >>

\* A failed copy taken for the end of the stream.
CopyIgnoringErr(c) ==
  /\ cpc[c] = "copy"
  /\ \/ /\ debug_info[c] # <<>>
        /\ files' = [files EXCEPT ![TempPath(c)] = Append(@, Head(debug_info[c]))]
        /\ debug_info' = [debug_info EXCEPT ![c] = Tail(@)]
        /\ UNCHANGED << cpc, cresult, failed >>
     \/ /\ debug_info[c] = <<>>
        /\ cpc' = [cpc EXCEPT ![c] = "mkdir"]
        /\ UNCHANGED << files, debug_info, cresult, failed >>
     \/ /\ failed' = failed \cup {c}
        /\ cpc' = [cpc EXCEPT ![c] = "mkdir"]
        /\ UNCHANGED << files, debug_info, cresult >>
  /\ UNCHANGED << dirs, cid, gets, persisted, clientVars, pureVars >>

\* caching_client.rs 101-102: io::copy, byte by byte, until the stream ends
\* or a read or a write fails.
Copy(c) ==
  /\ cpc[c] = "copy"
  /\ \/ /\ debug_info[c] # <<>>
        /\ files' = [files EXCEPT ![TempPath(c)] = Append(@, Head(debug_info[c]))]
        /\ debug_info' = [debug_info EXCEPT ![c] = Tail(@)]
        /\ UNCHANGED << cpc, cresult, failed >>
     \/ /\ debug_info[c] = <<>>
        /\ cpc' = [cpc EXCEPT ![c] = "mkdir"]
        /\ UNCHANGED << files, debug_info, cresult, failed >>
     \/ ReturnDropping(c, IoErr("failed to write debug info to file system",
                                "io_error"))
  /\ UNCHANGED << dirs, cid, gets, persisted, clientVars, pureVars >>

\* caching_client.rs 104-107
MkDir(c) ==
  /\ cpc[c] = "mkdir"
  /\ \/ /\ dirs' = dirs \cup { parent(debuginfo_path(cid[c])) }
        /\ cpc' = [cpc EXCEPT ![c] = "persist"]
        /\ UNCHANGED << files, cresult, debug_info, failed >>
     \/ /\ ReturnDropping(c, IoErr("failed to create directory", "io_error"))
        /\ UNCHANGED dirs
  /\ UNCHANGED << cid, gets, persisted, clientVars, pureVars >>

\* caching_client.rs 109-122
Persist(c) ==
  /\ cpc[c] = "persist"
  /\ LET path == debuginfo_path(cid[c])
         moved == persist_noclobber(files, TempPath(c), path)
     IN  \/ /\ moved.ok
            /\ files' = moved.fs
            /\ persisted' = [persisted EXCEPT ![cid[c]] = @ + 1]
            /\ cresult' = [cresult EXCEPT ![c] = OkSomePath(path)]
            /\ cpc' = [cpc EXCEPT ![c] = "done"]
            /\ UNCHANGED << debug_info, failed >>
         \/ /\ ~moved.ok
            /\ ReturnDropping(c, IoErr("failed to move temporary file",
                                       "already_exists"))
            /\ UNCHANGED persisted
         \/ /\ ReturnDropping(c, IoErr("failed to move temporary file", "io_error"))
            /\ UNCHANGED persisted
  /\ UNCHANGED << dirs, cid, gets, clientVars, pureVars >>

\* The process of call c dies inside the call: its memory is gone, nothing
\* is cleaned up and its temporary file, if any, stays as it is.
Crash(c) ==
  /\ cpc[c] \in {"probe", "fetch", "mktemp", "copy", "mkdir", "persist"}
  /\ cpc' = [cpc EXCEPT ![c] = "crashed"]
  /\ cid' = [cid EXCEPT ![c] = <<>>]
  /\ gets' = [gets EXCEPT ![c] = 0]
  /\ debug_info' = [debug_info EXCEPT ![c] = <<>>]
  /\ UNCHANGED << files, dirs, cresult, persisted, failed, clientVars, pureVars >>

NextCache ==
  \/ \E c \in Calls, b \in CacheBuildIds : Call(c, b)
  \/ \E c \in Calls : ProbeHit(c)
  \/ \E c \in Calls : ProbeMiss(c)
  \/ \E c \in Calls : ProbeErr(c)
  \/ \E c \in Calls : Fetch(c)
  \/ \E c \in Calls : MkTemp(c)
  \/ \E c \in Calls : Copy(c)
  \/ \E c \in Calls : MkDir(c)
  \/ \E c \in Calls : Persist(c)
  \/ \E c \in Calls : Crash(c)

SpecCache == InitCache /\ [][NextCache]_vars

\* ------------------------------------------- functions applied on their own

\* All sequences over S of length at most n.
Seqs(S, n) == UNION { [1..k -> S] : k \in 0..n }

\* The elements of the strings: the two separators, a whitespace character
\* that is no separator, two URLs and the text of the test no_valid_urls
\* that is none.  Two of these URLs written one after the other are no URL.
StrPieces == { ",", " ", "\t", "http://[::1]", "http://[::2]", "!#&*(@&!" }

\* A byte sequence of an OsString that is not valid Unicode.
NonUnicode == "\\xff"

\* char::is_whitespace
is_whitespace(ch) == ch \in { " ", "\t" }

RECURSIVE trim_start(_)
\* str::trim_start
trim_start(s) ==
  IF s # <<>> /\ is_whitespace(Head(s)) THEN trim_start(Tail(s)) ELSE s

RECURSIVE trim_end(_)
\* str::trim_end
trim_end(s) ==
  IF s # <<>> /\ is_whitespace(s[Len(s)])
  THEN trim_end(SubSeq(s, 1, Len(s) - 1))
  ELSE s

\* str::trim
trim(s) == trim_end(trim_start(s))

RECURSIVE split(_, _)
\* str::split(pat): the substrings between the matches of pat, empty ones
\* included; n matches give n + 1 substrings.
split(s, pat) ==
  IF \A i \in DOMAIN s : s[i] \notin pat THEN << s >>
  ELSE LET i == CHOOSE k \in DOMAIN s :
                  s[k] \in pat /\ \A j \in 1..(k - 1) : s[j] \notin pat
       IN  << SubSeq(s, 1, i - 1) >> \o split(SubSeq(s, i + 1, Len(s)), pat)

\* The filter for empty entries left out.
split_env_var_contentsKeepEmpty(urls_str) ==
  LET parts == split(urls_str, { ",", " " })
  IN  [i \in DOMAIN parts |-> trim(trim(parts[i]))]

\* util::split_env_var_contents
split_env_var_contents(urls_str) ==
  LET parts == split(urls_str, { ",", " " })
      trimmed == [i \in DOMAIN parts |-> trim(parts[i])]
      kept == SelectSeq(trimmed, LAMBDA s : s # <<>>)
  IN  [i \in DOMAIN kept |-> trim(kept[i])]

\* Url::parse: leading and trailing spaces and control characters are
\* stripped, tabs are removed, and what remains has to be one URL.
UrlParse(input) ==
  LET cleaned == SelectSeq(trim(input), LAMBDA ch : ch # "\t")
  IN  IF Len(cleaned) = 1 /\ cleaned[1] \in { "http://[::1]", "http://[::2]" }
      THEN [ok |-> TRUE, url |-> [origin |-> cleaned[1], path |-> <<>>]]
      ELSE [ok |-> FALSE, url |-> [origin |-> "", path |-> <<>>]]

\* Ok(Some(Client { base_urls, client }))
OkSomeClient(urls) == [tag |-> "some", client |-> [base_urls |-> urls]]

\* The error "failed to parse URL `{url}`".
ParseErr(url) ==
  [tag |-> "err", err |-> [kind |-> "parse", context |-> "failed to parse URL", url |-> url]]

\* The error "DEBUGINFOD_URLS does not contain valid Unicode".
UnicodeErr ==
  [tag |-> "err", err |-> [kind |-> "unicode",
                           context |-> "DEBUGINFOD_URLS does not contain valid Unicode",
                           url |-> <<>>]]

\* Entries that do not parse passed over instead of failing the build.
buildSkippingInvalid(urls) ==
  LET parsed == [i \in DOMAIN urls |-> UrlParse(trim(urls[i]))]
      good == SelectSeq(parsed, LAMBDA p : p.ok)
  IN  IF good = <<>> THEN OkNone
      ELSE OkSomeClient([i \in DOMAIN good |-> good[i].url])

\* The parsed URLs collected last first.
buildReversed(urls) ==
  LET parsed == [i \in DOMAIN urls |-> UrlParse(trim(urls[i]))]
      bad == { i \in DOMAIN urls : ~parsed[i].ok }
  IN  IF bad # {}
      THEN ParseErr(urls[CHOOSE i \in bad : \A j \in bad : i <= j])
      ELSE IF parsed = <<>> THEN OkNone
      ELSE OkSomeClient([i \in DOMAIN urls |-> parsed[Len(urls) + 1 - i].url])

\* ClientBuilder::build
build(urls) ==
  LET parsed == [i \in DOMAIN urls |-> UrlParse(trim(urls[i]))]
      bad == { i \in DOMAIN urls : ~parsed[i].ok }
  IN  IF bad # {}
      THEN ParseErr(urls[CHOOSE i \in bad : \A j \in bad : i <= j])
      ELSE IF parsed = <<>> THEN OkNone
      ELSE OkSomeClient([i \in DOMAIN urls |-> parsed[i].url])

\* env::var_os("DEBUGINFOD_URLS")
EnvAbsent == [present |-> FALSE, value |-> <<>>]
EnvPresent(value) == [present |-> TRUE, value |-> value]

\* The variable read with env::var(..)?: its absence is an error.
build_from_envAbsentErr(var) ==
  IF ~var.present THEN UnicodeErr
  ELSE IF \E i \in DOMAIN var.value : var.value[i] = NonUnicode THEN UnicodeErr
  ELSE build(split_env_var_contents(var.value))

\* ClientBuilder::build_from_env
build_from_env(var) ==
  IF ~var.present THEN OkNone
  ELSE IF \E i \in DOMAIN var.value : var.value[i] = NonUnicode THEN UnicodeErr
  ELSE build(split_env_var_contents(var.value))

\* Everything below 400 taken for a success.
is_successBelow400(status) == 200 <= status /\ status < 400

\* http::StatusCode::is_success
is_success(status) == 200 <= status /\ status < 300

\* <BlockingClient as HttpClient>::get: the request cannot be made of the
\* URL, or its execution fails, or the response has the status and body of
\* the exchange.
BlockingClient_get(exchange) ==
  IF ~exchange.url_ok THEN InvalidUrl
  ELSE IF ~exchange.executed THEN Other
  ELSE IF ~is_success(exchange.status) THEN StatusCode(exchange.status)
  ELSE OkStream(exchange.data)

\* The value a function returned.
Ret(value) == [tag |-> "ret", value |-> value]

\* The entries ClientBuilder::build is handed.
BuildEntries ==
  { << >>, << "http://[::1]" >>, << "http://[::2]" >>, << "!#&*(@&!" >>,
    << " ", "http://[::1]", "\t" >>, << "http://[::1]", "http://[::2]" >>,
    << "http://[::2]", ",", "http://[::1]" >> }

\* The bytes build ids are made of.
ByteSamples == { 0, 9, 10, 15, 16, 165, 255 }

\* The HTTP statuses of the exchanges.
Statuses == { 100, 199, 200, 204, 299, 300, 304, 404, 418, 500, 599 }

\* The functions and the inputs they are applied to.
PureInputs ==
  { [fn |-> "split", arg |-> s] : s \in Seqs(StrPieces, MaxEnvLen) }
    \cup { [fn |-> "build", arg |-> l] : l \in Seqs(BuildEntries, MaxServers) }
    \cup { [fn |-> "build_from_env", arg |-> EnvAbsent] }
    \cup { [fn |-> "build_from_env", arg |-> EnvPresent(s)] :
             s \in Seqs(StrPieces \cup { NonUnicode }, MaxEnvLen) }
    \cup { [fn |-> "format", arg |-> b] : b \in Seqs(ByteSamples, MaxIdLen) }
    \cup { [fn |-> "get", arg |-> x] :
             x \in [url_ok : BOOLEAN, executed : BOOLEAN,
                    status : Statuses, data : Payloads] }

\* One function is about to be applied to one input.
InitPure ==
  /\ base_urls = CacheBaseUrls
  /\ client = << >>
  /\ id = RawBytes(<<>>)
  /\ pc = "start"
  /\ build_id = ""
  /\ idx = 0
  /\ issue_err = NoErr
  /\ server_err = NoErr
  /\ requests = <<>>
  /\ result = NoResult
  /\ CacheIdle
  /\ fn_arg \in PureInputs
  /\ fn_ret = NoResult

\* The function fn is applied and returns value.
Apply(fn, value) ==
  /\ fn_arg.fn = fn
  /\ fn_ret = NoResult
  /\ fn_ret' = Ret(value)
  /\ UNCHANGED << clientVars, cacheVars, fn_arg >>

ApplySplit == Apply("split", split_env_var_contents(fn_arg.arg))

ApplyBuild == Apply("build", build(fn_arg.arg))

ApplyBuildFromEnv == Apply("build_from_env", build_from_env(fn_arg.arg))

\* format_build_id and BuildId::format of the raw id.
ApplyFormat ==
  Apply("format", [hex |-> format_build_id(fn_arg.arg),
                   format |-> Format(RawBytes(fn_arg.arg))])

\* BlockingClient::get, and Client::fetch_debug_info over that transport
\* with one server.
ApplyGet ==
  Apply("get",
        LET out == BlockingClient_get(fn_arg.arg)
        IN  [outcome |-> out,
             fetched |-> fetch_debug_info(CacheBaseUrls, << out >>,
                                          EnterLoop(RawBytes(<<0>>))).result])

NextPure ==
  \/ ApplySplit
  \/ ApplyBuild
  \/ ApplyBuildFromEnv
  \/ ApplyFormat
  \/ ApplyGet

SpecPure == InitPure /\ [][NextPure]_vars

\* ------------------------------------------------- the layout of the cache

\* debuginfo_path is about to be applied to every build id of up to MaxIdLen
\* bytes.
InitPaths ==
  /\ base_urls = CacheBaseUrls
  /\ client = << >>
  /\ id = RawBytes(<<>>)
  /\ pc = "start"
  /\ build_id = ""
  /\ idx = 0
  /\ issue_err = NoErr
  /\ server_err = NoErr
  /\ requests = <<>>
  /\ result = NoResult
  /\ CacheIdle
  /\ fn_arg = [fn |-> "debuginfo_path", arg |-> Seqs(ByteSamples, MaxIdLen)]
  /\ fn_ret = NoResult

\* debuginfo_path of each of the build ids.
ApplyPath ==
  Apply("debuginfo_path", [b \in fn_arg.arg |-> debuginfo_path(b)])

\* The paths are derived, or calls are made.
NextPaths ==
  \/ ApplyPath
  \/ fn_arg.fn = "none" /\ NextCache

SpecPaths == (InitPaths \/ InitCache) /\ [][NextPaths]_vars

\* ------------------------------------------------ a client built and used

\* No client yet: ClientBuilder::build is about to be called with a list of
\* strings.
InitBuilt ==
  /\ base_urls = << >>
  /\ client = << >>
  /\ id = RawBytes(<<174, 185>>)
  /\ pc = "unbuilt"
  /\ build_id = ""
  /\ idx = 0
  /\ issue_err = NoErr
  /\ server_err = NoErr
  /\ requests = <<>>
  /\ result = NoResult
  /\ CacheIdle
  /\ fn_arg \in { [fn |-> "build", arg |-> l] : l \in Seqs(BuildEntries, MaxServers) }
  /\ fn_ret = NoResult

\* ClientBuilder::build returns: with Ok(Some(client)) there is a Client,
\* holding the base URLs and a transport; with Ok(None) or Err there is none.
BuildClient ==
  /\ pc = "unbuilt"
  /\ LET out == build(fn_arg.arg)
     IN  /\ fn_ret' = Ret(out)
         /\ IF out.tag = "some"
            THEN /\ base_urls' = out.client.base_urls
                 /\ client' \in [DOMAIN out.client.base_urls -> Outcomes]
                 /\ pc' = "start"
            ELSE /\ pc' = "noclient"
                 /\ UNCHANGED << base_urls, client >>
  /\ UNCHANGED << id, build_id, idx, issue_err, server_err, requests, result,
                  cacheVars, fn_arg >>

NextBuilt ==
  \/ BuildClient
  \/ FetchStart
  \/ GetOk
  \/ GetNotFound
  \/ GetStatusCode
  \/ GetErr
  \/ FetchEnd

SpecBuilt == InitBuilt /\ [][NextBuilt]_vars

\* --------------------------------------------- properties of one fetch call

Servers == DOMAIN base_urls

Succeeds(k) == client[k].kind = "ok"

\* A status error other than 404.
ServerError(k) == client[k].kind = "status" /\ client[k].status # NOT_FOUND

Returned == pc = "done"

\* C1: the k-th request of a call goes to the k-th configured server, no
\* request follows a successful one, and the state right after a successful
\* request is the returned call with that response.
C1_RankOrderFirstSuccess ==
  /\ Len(requests) <= Len(base_urls)
  /\ \A k \in 1..Len(requests) :
       /\ requests[k].idx = k
       /\ requests[k].url.origin = base_urls[k].origin
       /\ k < Len(requests) => ~Succeeds(k)
       /\ Succeeds(k) =>
            /\ Returned
            /\ result = OkSome(Response(client[k].data, base_urls[k]))

\* C1 witness: three servers, the second one succeeds after a failure of the
\* first, and the third was never contacted.
C1_Witness ==
  /\ Returned
  /\ Len(base_urls) = 3
  /\ ~Succeeds(1) /\ Succeeds(2)
  /\ Len(requests) = 2
  /\ result.tag = "some"

\* C2: when exactly one server's transport call succeeds, the returned call
\* is Ok(Some) with that server's stream and that server's base URL.
C2_OnlySuccessWins ==
  Returned =>
    \A j \in Servers :
      (Succeeds(j) /\ \A k \in Servers \ {j} : ~Succeeds(k)) =>
        result = OkSome(Response(client[j].data, base_urls[j]))

\* C2 witness: the only success is the last of three servers, behind a 404
\* and behind another failure.
C2_Witness ==
  /\ Returned
  /\ Len(base_urls) = 3
  /\ client[1] = StatusCode(NOT_FOUND)
  /\ client[2].kind \in {"invalid_url", "other"} \/ ServerError(2)
  /\ Succeeds(3)
  /\ base_urls[3] # base_urls[1]
  /\ result = OkSome(Response(client[3].data, base_urls[3]))

\* C3: all servers answering 404 gives Ok(None), and Ok(None) is returned
\* only after every server was contacted, in order, and each answered 404.
C3_NotFoundIffAll404 ==
  Returned =>
    /\ (\A k \in Servers : client[k] = StatusCode(NOT_FOUND)) => result = OkNone
    /\ result = OkNone =>
         /\ Len(requests) = Len(base_urls)
         /\ \A k \in Servers :
              requests[k].idx = k /\ client[k] = StatusCode(NOT_FOUND)

\* C3 witness: three servers, all 404, the call returned Ok(None).
C3_Witness ==
  /\ Returned
  /\ Len(base_urls) = 3
  /\ \A k \in Servers : client[k] = StatusCode(NOT_FOUND)
  /\ result = OkNone

\* C4: with no success and some non-404 status, the call returns the server
\* error, wherever the issue errors stand in the list; an issue error is
\* returned only when no server gave a non-404 status.
C4_ServerErrorPrecedence ==
  Returned =>
    /\ ((\A k \in Servers : ~Succeeds(k)) /\ (\E k \in Servers : ServerError(k))) =>
         result.tag = "err" /\ result.err.kind = "server"
    /\ (result.tag = "err" /\ result.err.kind = "issue") =>
         \A k \in Servers : ~ServerError(k)

\* C4 witness: an issue error was recorded first, a status 500 after it, and
\* the call returned the server error.
C4_Witness ==
  /\ Returned
  /\ Len(base_urls) >= 2
  /\ client[1] = Other
  /\ client[2] = StatusCode(500)
  /\ result.tag = "err"
  /\ result.err = status_to_error(500)

Appended(base_url, hex) ==
  [origin |-> base_url.origin, path |-> base_url.path \o EndpointPath(hex)]

\* C6: every request of a call goes to the base URL followed by
\* /buildid/<hex id>/debuginfo, with the one hex id of the call.
C6_RequestUrlAppended ==
  \A k \in 1..Len(requests) :
    requests[k].url = Appended(base_urls[requests[k].idx], Format(id))

\* The requests and the result of the whole call made with build id other
\* on the client and transport of the state.
CallWith(other) ==
  LET loc == fetch_debug_info(base_urls, client, EnterLoop(other))
  IN  [requests |-> loc.requests, result |-> loc.result]

\* C17: the string of a pre-formatted id is the build id of the call as it
\* is, in every request URL, and a returned call made with raw bytes made
\* the requests and has the result that the call with the formatted hex
\* rendering of these bytes makes and has on the same client and transport,
\* and the other way round.
C17_FormattedVerbatim ==
  /\ (id.kind = "formatted" /\ pc # "start") =>
       /\ build_id = id.string
       /\ \A k \in 1..Len(requests) :
            requests[k].url.path = << "buildid", id.string, "debuginfo" >>
  /\ (id.kind = "raw" /\ Returned) =>
       CallWith(Formatted(format_build_id(id.bytes)))
         = [requests |-> requests, result |-> result]
  /\ (id.kind = "formatted" /\ Returned) =>
       \A b \in { <<0>>, <<174, 185>> } :
         format_build_id(b) = id.string =>
           CallWith(RawBytes(b)) = [requests |-> requests, result |-> result]

\* C17 witness: the call with the pre-formatted id "aeb9", the rendering of
\* the bytes 0xae 0xb9, returned after two requests, the second one served.
C17_Witness ==
  /\ Returned
  /\ id = Formatted(format_build_id(<<174, 185>>))
  /\ Len(requests) = 2
  /\ requests[2].url.path = << "buildid", "aeb9", "debuginfo" >>
  /\ result.tag = "some"

\* The server failed to be asked: InvalidUrl or Other.
IssueFailure(k) == client[k].kind \in { "invalid_url", "other" }

\* C19: a returned call in which no server succeeded and some gave a status
\* other than 404 has the error of the status of the first of these in the
\* list; with no such status and some InvalidUrl or Other it has the error
\* of the first of those, with the URL then requested; and an error once
\* recorded during the call is never replaced.
C19_FirstErrorKept ==
  /\ (Returned /\ \A k \in Servers : ~Succeeds(k)) =>
       LET status == { k \in Servers : ServerError(k) }
           issue == { k \in Servers : IssueFailure(k) }
           first_status == CHOOSE k \in status : \A j \in status : k <= j
           first_issue == CHOOSE k \in issue : \A j \in issue : k <= j
       IN  /\ status # {} =>
                result = Err(status_to_error(client[first_status].status), build_id)
           /\ (status = {} /\ issue # {}) =>
                result = Err(IssueError(RequestUrl(base_urls[first_issue], build_id),
                                        client[first_issue].kind),
                             build_id)
  /\ \A k \in 1..Len(requests) :
       /\ (ServerError(k) /\ \A j \in 1..(k - 1) : ~ServerError(j)) =>
            server_err = status_to_error(client[k].status)
       /\ (IssueFailure(k) /\ \A j \in 1..(k - 1) : ~IssueFailure(j)) =>
            issue_err = IssueError(requests[k].url, client[k].kind)

\* C19 witness: the servers answered 404, 500 and 418, in this order, and
\* the call returned the error of the 500.
C19_Witness ==
  /\ Returned
  /\ Len(base_urls) = 3
  /\ client[1] = StatusCode(NOT_FOUND)
  /\ client[2] = StatusCode(500)
  /\ client[3] = StatusCode(418)
  /\ result.tag = "err"
  /\ result.err = status_to_error(500)

\* The servers a returned call has to have asked: those up to the first
\* that succeeds, all of them if none does.
Pass ==
  IF \E k \in Servers : Succeeds(k)
  THEN 1..(CHOOSE k \in Servers : Succeeds(k) /\ \A j \in 1..(k - 1) : ~Succeeds(j))
  ELSE Servers

\* No server was asked twice, and a returned call has asked exactly the
\* servers of its pass.
OnePass ==
  /\ \A j, k \in 1..Len(requests) : requests[j].idx = requests[k].idx => j = k
  /\ Len(requests) <= Len(base_urls)
  /\ Returned =>
       /\ Len(requests) = Cardinality(Pass)
       /\ { requests[k].idx : k \in 1..Len(requests) } = Pass

\* C20: no server is asked twice in a call, a returned call has asked
\* exactly the servers up to the first one that succeeds, or all of them if
\* none does, once each, and every call returns.
C20_OnePass == []OnePass /\ <>Returned

\* C20 witness: of three servers the second and the third would both
\* succeed; the call returned after two requests.
C20_Witness ==
  /\ Returned
  /\ Len(base_urls) = 3
  /\ client[1].kind \in { "invalid_url", "other" }
  /\ Succeeds(2) /\ Succeeds(3)
  /\ Len(requests) = 2
  /\ requests[1].idx = 1 /\ requests[2].idx = 2

\* ------------------------------------------- properties of the cache layer

\* The target path of build id b exists.
Cached(b) == debuginfo_path(b) \in DOMAIN files

\* Call c has returned.
Done(c) == cpc[c] = "done"

\* The call of c failed on an I/O error of the file system.
IoFailure(c) ==
  /\ cresult[c].tag = "err"
  /\ cresult[c].err.kind = "io"
  /\ cresult[c].err.cause = "io_error"

\* The wrapped client handed a stream to the call of c.
ReceivedStream(c) ==
  /\ gets[c] > 0
  /\ cresult[c] # OkNone
  /\ cresult[c].tag = "err" => cresult[c].err.kind = "io"

\* C7: a target path that exists stays, and a call whose existence check
\* finds its target path (try_exists answers Ok(true)) returns Ok(Some) with
\* exactly that path in that one step, having made no transport call and
\* leaving every file and directory as it was.
C7_CacheHit ==
  [][ \A c \in Calls :
        LET path == debuginfo_path(cid[c])
        IN  /\ \A b \in CacheBuildIds : Cached(b) => Cached(b)'
            /\ ( /\ cpc[c] = "probe"
                 /\ path \in DOMAIN files
                 /\ cpc'[c] \notin {"probe", "crashed"}
                 /\ cresult'[c] # IoErr("try_exists", "io_error") )
               => /\ cpc'[c] = "done"
                  /\ cresult'[c] = OkSomePath(path)
                  /\ gets'[c] = 0
                  /\ files' = files
                  /\ dirs' = dirs ]_vars

\* C7 witness: one call moved the file in, a later call for the same id
\* returned the same path without any transport call.
C7_Witness ==
  \E c, e \in Calls :
    /\ c # e
    /\ Done(c) /\ Done(e)
    /\ cid[c] = cid[e]
    /\ gets[e] = 1 /\ cresult[e] = OkSomePath(debuginfo_path(cid[e]))
    /\ gets[c] = 0 /\ cresult[c] = cresult[e]
    /\ persisted[cid[c]] = 1

\* C8: a returned call that was handed a stream by the transport and met no
\* I/O failure returned Ok(Some) with the target path of its build id, so
\* two calls racing for one uncached id both succeed with the same path.
C8_RacingCallsSucceed ==
  \A c \in Calls :
    (Done(c) /\ ReceivedStream(c) /\ ~IoFailure(c)) =>
      cresult[c] = OkSomePath(debuginfo_path(cid[c]))

\* C9: whatever the interleaving and whoever crashed, a target path that
\* exists holds one complete stream of the transport, moved there in one
\* piece: never a prefix, never more than one stream.
C9_TargetComplete ==
  \A b \in CacheBuildIds :
    Cached(b) => files[debuginfo_path(b)] \in Payloads /\ persisted[b] >= 1

\* C9 witness: a call crashed in the middle of its copy, its temporary file
\* holds a strict prefix of a stream, and the target path of another call
\* exists with a complete stream.
C9_Witness ==
  \E c, e \in Calls :
    /\ cpc[c] = "crashed"
    /\ TempPath(c) \in DOMAIN files
    /\ files[TempPath(c)] = <<1>>
    /\ Done(e)
    /\ Cached(cid[e])
    /\ files[debuginfo_path(cid[e])] = <<1, 2>>

\* C10: at most one move into each target path ever succeeds, and no step
\* removes a target path that exists or changes its content.
C10_AtMostOnceWrite ==
  /\ [](\A b \in CacheBuildIds : persisted[b] <= 1)
  /\ [][ \A b \in CacheBuildIds :
           Cached(b) =>
             /\ Cached(b)'
             /\ files'[debuginfo_path(b)] = files[debuginfo_path(b)] ]_vars

\* C10 witness: one move succeeded and a second call, holding a different
\* stream for the same id, reached its move and was refused.
C10_Witness ==
  \E c, e \in Calls :
    /\ Done(c) /\ Done(e)
    /\ cid[c] = cid[e]
    /\ persisted[cid[c]] = 1
    /\ cresult[c] = OkSomePath(debuginfo_path(cid[c]))
    /\ gets[c] = 1
    /\ cresult[e] = IoErr("failed to move temporary file", "already_exists")

\* C11: a call that misses the cache and whose wrapped client answers
\* Ok(None) returns Ok(None) in that step; no step of a call up to and
\* including the client's answer creates a file or a directory, so such a
\* call leaves no temporary file, no entry directory and no target file; and
\* Ok(None) is returned only this way, after every server was asked.
C11_NotFoundUntouched ==
  /\ [](\A c \in Calls :
          cresult[c] = OkNone =>
            /\ Done(c)
            /\ gets[c] = Len(CacheBaseUrls)
            /\ c \notin failed
            /\ TempPath(c) \notin DOMAIN files)
  /\ [][ \A c \in Calls :
           /\ (cpc[c] \in {"idle", "probe", "fetch"} /\ cpc'[c] # cpc[c]) =>
                /\ files' = files
                /\ dirs' = dirs
                /\ persisted' = persisted
           /\ (cresult[c] # OkNone /\ cresult'[c] = OkNone) =>
                cpc[c] = "fetch" /\ cpc'[c] = "done"
           /\ (cpc[c] = "fetch" /\ cpc'[c] = "done") =>
                \E ret \in ClientReturns[cid[c]] :
                  ret.result.tag # "some" /\ cresult'[c] = ret.result ]_vars

\* C11 witness: a call on the empty cache was answered 404 by the server and
\* returned Ok(None); the cache directory is still empty.
C11_Witness ==
  \E c \in Calls :
    /\ Done(c)
    /\ cresult[c] = OkNone
    /\ gets[c] = 1
    /\ DOMAIN files = {}
    /\ dirs = {}

\* The contexts the code attaches to the failures of its file operations.
FileOpContexts ==
  { "failed to create temporary file",
    "failed to write debug info to file system",
    "failed to create directory",
    "failed to move temporary file" }

\* C12: the step in which the creation of the temporary file, the copy of
\* the stream (at any byte of it), the creation of the entry directory or the
\* final move fails is the return of the call with that error: no further
\* request is made, no target path appears or changes in it, and the call's
\* temporary file is gone; the call stays returned with Err.
C12_FileOpFailureIsErr ==
  /\ [](\A c \in failed :
          /\ Done(c)
          /\ cresult[c].tag = "err"
          /\ cresult[c].err.kind = "io"
          /\ cresult[c].err.context \in FileOpContexts)
  /\ [][ \A c \in Calls :
           (c \notin failed /\ c \in failed') =>
             /\ cpc[c] \in {"mktemp", "copy", "mkdir", "persist"}
             /\ cpc'[c] = "done"
             /\ cresult'[c].tag = "err"
             /\ gets'[c] = gets[c]
             /\ persisted' = persisted
             /\ TempPath(c) \notin DOMAIN files'
             /\ \A b \in CacheBuildIds :
                  /\ Cached(b)' <=> Cached(b)
                  /\ Cached(b) =>
                       files'[debuginfo_path(b)] = files[debuginfo_path(b)] ]_vars

\* C12 witness: one call returned the error of a failed copy with no file at
\* its target path, and another call the error of a different file operation.
C12_Witness ==
  /\ \E c \in failed :
       /\ cresult[c] = IoErr("failed to write debug info to file system", "io_error")
       /\ gets[c] = 1
       /\ ~Cached(cid[c])
  /\ \E c \in failed : cresult[c].err.context # "failed to write debug info to file system"

\* ----------------------------------- properties of the functions on their own

\* The function fn has been applied to its input.
Applied(fn) == fn_arg.fn = fn /\ fn_ret.tag = "ret"

\* C13: ClientBuilder::build returns Ok(None) exactly for the empty list,
\* Err as soon as one entry of the list does not parse as a URL, whatever
\* the other entries are, and Ok(Some(client)) in every other case, the
\* client holding the parsed entries in the order of the list.
C13_BuildOutcome ==
  Applied("build") =>
    LET urls == fn_arg.arg
        out == fn_ret.value
    IN  /\ out = OkNone <=> urls = <<>>
        /\ (\E i \in DOMAIN urls : ~UrlParse(urls[i]).ok) => out.tag = "err"
        /\ (urls # <<>> /\ \A i \in DOMAIN urls : UrlParse(urls[i]).ok) =>
             /\ out.tag = "some"
             /\ Len(out.client.base_urls) = Len(urls)
             /\ \A i \in DOMAIN urls :
                  out.client.base_urls[i] = UrlParse(urls[i]).url

\* C13 witness: a list of two URLs and, last, the text of the test
\* no_valid_urls has been refused.
C13_Witness ==
  /\ Applied("build")
  /\ fn_arg.arg = << << "http://[::1]" >>, << "http://[::2]" >>, << "!#&*(@&!" >> >>
  /\ fn_ret.value = ParseErr(<< "!#&*(@&!" >>)

\* The entries of a value of DEBUGINFOD_URLS: what stands between its commas
\* and spaces, without the blank ones.
EnvEntries(value) ==
  SelectSeq(split(value, { ",", " " }),
            LAMBDA s : \E i \in DOMAIN s : ~is_whitespace(s[i]))

\* C14: build_from_env returns Ok(None) when DEBUGINFOD_URLS is not set or
\* has no entry, Err when one of its entries is no URL (an entry that is not
\* even Unicode is none), and otherwise Ok(Some(client)), the client holding
\* one base URL for each entry, parsed from it, in the order of the entries.
C14_BuildFromEnvOutcome ==
  Applied("build_from_env") =>
    LET var == fn_arg.arg
        out == fn_ret.value
        entries == EnvEntries(var.value)
    IN  /\ ~var.present => out = OkNone
        /\ (var.present /\ entries = <<>>) => out = OkNone
        /\ (\E i \in DOMAIN entries : ~UrlParse(entries[i]).ok) => out.tag = "err"
        /\ (entries # <<>> /\ \A i \in DOMAIN entries : UrlParse(entries[i]).ok) =>
             /\ out.tag = "some"
             /\ Len(out.client.base_urls) = Len(entries)
             /\ \A i \in DOMAIN entries :
                  out.client.base_urls[i] = UrlParse(entries[i]).url

\* C14 witness: a value of two URLs with a comma and a space between them
\* gave a client of these two base URLs, in their order.
C14_Witness ==
  /\ Applied("build_from_env")
  /\ fn_arg.arg = EnvPresent(<< "http://[::2]", ",", " ", "http://[::1]" >>)
  /\ fn_ret.value = OkSomeClient(<< [origin |-> "http://[::2]", path |-> <<>>],
                                    [origin |-> "http://[::1]", path |-> <<>>] >>)

\* A comma or a space.
IsSeparator(ch) == ch = "," \/ ch = " "

\* The maximal runs << a, b >> of s without a separator that hold more than
\* whitespace.
Runs(s) ==
  { r \in (DOMAIN s) \X (DOMAIN s) :
      /\ r[1] <= r[2]
      /\ \A k \in r[1]..r[2] : ~IsSeparator(s[k])
      /\ r[1] = 1 \/ IsSeparator(s[r[1] - 1])
      /\ r[2] = Len(s) \/ IsSeparator(s[r[2] + 1])
      /\ \E k \in r[1]..r[2] : s[k] # "\t" }

\* The run r of s without the whitespace at its two ends.
Trimmed(s, r) ==
  LET inner == { k \in r[1]..r[2] : s[k] # "\t" }
      first == CHOOSE k \in inner : \A j \in inner : k <= j
      last == CHOOSE k \in inner : \A j \in inner : j <= k
  IN  SubSeq(s, first, last)

\* C15: the entries split_env_var_contents yields are, in the order of the
\* input, its maximal runs without comma and space, each trimmed, the runs
\* of nothing but whitespace left out: no entry is empty, holds a comma or a
\* space, or starts or ends with whitespace, and separators at the start,
\* at the end or next to each other give no entry.
C15_SplitEntries ==
  Applied("split") =>
    LET s == fn_arg.arg
        out == fn_ret.value
        runs == Runs(s)
    IN  /\ Len(out) = Cardinality(runs)
        /\ \A r \in runs :
             out[1 + Cardinality({ q \in runs : q[1] < r[1] })] = Trimmed(s, r)
        /\ \A i \in DOMAIN out :
             /\ out[i] # <<>>
             /\ \A k \in DOMAIN out[i] : ~IsSeparator(out[i][k])
             /\ out[i][1] # "\t" /\ out[i][Len(out[i])] # "\t"
        /\ (\A k \in DOMAIN s : IsSeparator(s[k])) => out = <<>>

\* C15 witness: of "<tab>URL,URL" the two URLs are yielded, in order, the
\* first without its tab.
C15_Witness ==
  /\ Applied("split")
  /\ fn_arg.arg = << "\t", "http://[::2]", ",", "http://[::1]" >>
  /\ fn_ret.value = << << "http://[::2]" >>, << "http://[::1]" >> >>

\* The sixteen lowercase hex digits, by value.
LowerHex ==
  << "0", "1", "2", "3", "4", "5", "6", "7", "8", "9", "a", "b", "c", "d", "e", "f" >>

RECURSIVE Concat(_)
\* The characters of chars as one string.
Concat(chars) ==
  IF chars = <<>> THEN "" ELSE Head(chars) \o Concat(Tail(chars))

\* The 2 * Len(b) characters that have, for byte i of b (counted from 0),
\* the digit of its high half at position 2i and of its low half at 2i + 1.
HexOf(b) ==
  [ p \in 1..(2 * Len(b)) |->
      IF p % 2 = 1 THEN LowerHex[(b[(p + 1) \div 2] \div 16) + 1]
      ELSE LowerHex[(b[p \div 2] % 16) + 1] ]

\* C16: for every byte sequence b, format_build_id(b) and BuildId::format
\* of the raw id b are one and the same string of 2 * Len(b) characters,
\* all of 0-9 and a-f, with byte i as two zero-padded lowercase digits at
\* positions 2i and 2i + 1.
C16_HexRendering ==
  Applied("format") =>
    LET b == fn_arg.arg
        out == fn_ret.value
    IN  /\ Len(out.hex) = 2 * Len(b)
        /\ out.hex = Concat(HexOf(b))
        /\ out.format = out.hex

\* C16 witness: the bytes 0x0a, 0x00, 0xff are rendered as "0a00ff".
C16_Witness ==
  /\ Applied("format")
  /\ fn_arg.arg = << 10, 0, 255 >>
  /\ fn_ret.value.hex = "0a00ff"

\* C18: BlockingClient::get gives one outcome for every exchange: InvalidUrl
\* exactly when no request can be made of the URL, Other exactly when the
\* request is made and its execution fails, the stream of the response
\* exactly when its status is one of 200..299, and StatusCode with the
\* status of the response for every other status; Client::fetch_debug_info
\* over it answers Ok(None) to 404 and the server error of the status to
\* every other status outside 200..299.
C18_TransportOutcome ==
  Applied("get") =>
    LET x == fn_arg.arg
        out == fn_ret.value.outcome
        fetched == fn_ret.value.fetched
        answered == x.url_ok /\ x.executed
    IN  /\ out.kind \in { "ok", "status", "invalid_url", "other" }
        /\ out = InvalidUrl <=> ~x.url_ok
        /\ out = Other <=> (x.url_ok /\ ~x.executed)
        /\ out.kind = "ok" <=> (answered /\ x.status \in 200..299)
        /\ out.kind = "ok" => out.data = x.data
        /\ out.kind = "status" <=> (answered /\ x.status \notin 200..299)
        /\ out.kind = "status" => out.status = x.status
        /\ (out.kind = "status" /\ out.status = 404) => fetched = OkNone
        /\ (out.kind = "status" /\ out.status # 404) =>
             /\ fetched.tag = "err"
             /\ fetched.err = status_to_error(x.status)
        /\ out.kind = "ok" <=> fetched.tag = "some"

\* C18 witness: a response with status 304 became StatusCode(304), and the
\* call made with it the error of a server failing with 304.
C18_Witness ==
  /\ Applied("get")
  /\ fn_arg.arg.url_ok /\ fn_arg.arg.executed
  /\ fn_arg.arg.status = 304
  /\ fn_ret.value.outcome = StatusCode(304)
  /\ fn_ret.value.fetched.tag = "err"
  /\ fn_ret.value.fetched.err = status_to_error(304)

\* ------------------------------------------------ properties of a built client

\* There is a Client: build returned Ok(Some(client)).
HasClient == pc \notin { "unbuilt", "noclient" }

\* C21: a Client that build produced holds at least one base URL, as many
\* as the list build was given and the i-th one parsed from the i-th entry
\* of that list, and no step of a fetch call on it changes the list.
C21_BaseUrlsOrderedFixed ==
  /\ [](HasClient =>
          /\ base_urls # << >>
          /\ Len(base_urls) = Len(fn_arg.arg)
          /\ \A i \in DOMAIN base_urls :
               base_urls[i] = UrlParse(fn_arg.arg[i]).url)
  /\ [][HasClient => base_urls' = base_urls]_vars

\* C21 witness: a client built from two different URLs, the second written
\* with whitespace around it, made a call that asked both and returned.
C21_Witness ==
  /\ Returned
  /\ fn_arg.arg = << << "http://[::2]" >>, << " ", "http://[::1]", "\t" >> >>
  /\ base_urls = << [origin |-> "http://[::2]", path |-> <<>>],
                    [origin |-> "http://[::1]", path |-> <<>>] >>
  /\ Len(requests) = 2
  /\ requests[1].url.origin = "http://[::2]"

\* ---------------------------------------------- properties of the cache layout

\* The path <hex id>/debuginfo under the cache root as the file system
\* reads it: its components that are not empty.
EntryPath(b) ==
  SelectSeq(<< Concat(HexOf(b)), "debuginfo" >>, LAMBDA s : s # "")

\* C22: the target path of every build id, the empty one included, is
\* <hex id>/debuginfo under the cache root, no two build ids have the same
\* target path, and in the cache the target path of a build id comes to
\* exist only by the move of a call for that id, is hit only by a call for
\* that id, and refuses only the move of a call for that id.
C22_PathInjective ==
  [][ /\ (fn_ret.tag = "pending" /\ fn_ret'.tag = "ret") =>
           LET ids == fn_arg.arg
               path == fn_ret'.value
           IN  /\ \A b \in ids : path[b] = EntryPath(b)
               /\ Cardinality({ path[b] : b \in ids }) = Cardinality(ids)
      /\ \A b \in CacheBuildIds :
           (~Cached(b) /\ Cached(b)') =>
             \E c \in Calls :
               cpc[c] = "persist" /\ cid[c] = b /\ cpc'[c] = "done"
      /\ \A c \in Calls :
           /\ (cpc[c] = "probe" /\ cpc'[c] = "done" /\ cresult'[c].tag = "some") =>
                /\ cresult'[c].path = EntryPath(cid[c])
                /\ EntryPath(cid[c]) \in DOMAIN files
           /\ ( /\ cpc[c] = "persist"
                /\ cresult'[c] = IoErr("failed to move temporary file", "already_exists") )
                => EntryPath(cid[c]) \in DOMAIN files ]_vars

\* C22 witness: the paths are derived, among them those of the empty id, of
\* 0x00 and of 0x00 0x00, all different.
C22_Witness ==
  /\ fn_ret.tag = "ret"
  /\ fn_ret.value[<< >>] = << "debuginfo" >>
  /\ fn_ret.value[<< 0 >>] = << "00", "debuginfo" >>
  /\ fn_ret.value[<< 0, 0 >>] = << "0000", "debuginfo" >>
  /\ fn_ret.value[<< 0, 255 >>] = << "00ff", "debuginfo" >>

\* The target paths of the build ids.
TargetPaths == { debuginfo_path(b) : b \in CacheBuildIds }

FromClient(r) ==
  \/ r = OkNone
  \/ r.tag = "err" /\ r.err.kind \in { "server", "issue" }

\* C24: a call returns not-found or the wrapped client's error only in the
\* step in which that client, having made its requests in this very call,
\* answered so, and that step leaves every file and directory as it was;
\* nothing but the target path decides a later call, which, finding no
\* target path, goes on to the client whatever calls returned before, and a
\* call that returned a path left the file there.
C24_NoNegativeCaching ==
  /\ [](\A c \in Calls :
          (Done(c) /\ cresult[c].tag = "some") =>
            /\ cresult[c].path = debuginfo_path(cid[c])
            /\ Cached(cid[c]))
  /\ [][ \A c \in Calls :
           /\ (cresult'[c] # cresult[c] /\ FromClient(cresult'[c])) =>
                /\ cpc[c] = "fetch" /\ cpc'[c] = "done"
                /\ gets[c] = 0 /\ gets'[c] >= 1
                /\ files' = files
                /\ dirs' = dirs
                /\ persisted' = persisted
           /\ ( /\ cpc[c] = "probe"
                /\ ~Cached(cid[c])
                /\ cpc'[c] \notin { "probe", "crashed" }
                /\ cresult'[c] # IoErr("try_exists", "io_error") )
                => cpc'[c] = "fetch" ]_vars

\* C24 witness: a call for an id returned Ok(None) after one request; a
\* call for the same id made a request too, was served and returned the
\* path, and the served stream is there.
C24_Witness ==
  \E c, e \in Calls :
    /\ Done(c) /\ Done(e)
    /\ cid[c] = cid[e]
    /\ cresult[c] = OkNone /\ gets[c] = 1
    /\ cresult[e] = OkSomePath(debuginfo_path(cid[e])) /\ gets[e] = 1
    /\ files[debuginfo_path(cid[e])] \in Payloads
    /\ persisted[cid[e]] = 1

====
